---- MODULE Spec2Model ----
(***************************************************************************)
(* Exam paper generation pipeline (backend/app/services/langgraph_flow.py) *)
(* and FAISS similarity index (backend/app/services/embedding_service.py). *)
(*                                                                         *)
(* Instruction text.  The code reads the prompt only through regular       *)
(* expressions, so a prompt is a sequence of clauses joined by ", ":       *)
(*   [form |-> "each",  n, t, m]   the text  "<n> <t> of <m> marks each"   *)
(*   [form |-> "count", n, t, m]   the text  "<n> <t>"          (m unused) *)
(*   [form |-> "word",  n, t, m]   the text  "<t>"           (n, m unused) *)
(* with t one of "mcqs", "short questions", "long questions", "problems",  *)
(* "questions" (forms each/count) or "mcq", "please" (form word).  Each    *)
(* regular expression of the code is an operator saying which clauses it   *)
(* matches and what it captures.                                           *)
(*                                                                         *)
(* Question text.  A text is a sequence of tokens (words and markers); the *)
(* string operations of the code (in, replace, +, slicing) act on tokens.  *)
(* A question is a record with its set of present keys, as a Python dict.  *)
(***************************************************************************)
EXTENDS Integers, Sequences, FiniteSets, TLC

\* ------------------------------------------------------------------ bounds
MaxClauses == 2
MaxCand == 2
MaxSurvivors == 3
MaxIndexLen == 3

\* how many request handlers are in flight at once
MaxTasks == 2

\* how many failing answers and verification mismatches a request in flight meets at most
MaxSetbacks == 3

\* how many context_texts entries the gathered context has at most
MaxContextTexts == 3

\* ------------------------------------------------------- program constants
GenRetryLimit == 3
VerifyRetryLimit == 5
RelevanceRetryLimit == 2
RelevancePercent == 40
ThresholdPercent == 90
TopK == 5
FallbackMarks == 10
FallbackDivisor == 10
FallbackMax == 5
CloneCutTokens == 2

\* if len(full_context) > 15000: full_context = full_context[:15000]
ContextBudget == 15000

\* ----------------------------------------------------------------- helpers
Min(a, b) == IF a < b THEN a ELSE b

Max(a, b) == IF a > b THEN a ELSE b

RECURSIVE SumSeq(_)
SumSeq(s) == IF s = <<>> THEN 0 ELSE Head(s) + SumSeq(Tail(s))

Take(s, n) == SubSeq(s, 1, Min(n, Len(s)))

Repeat(x, n) == [i \in 1..n |-> x]

RECURSIVE Flatten(_)
Flatten(ss) == IF ss = <<>> THEN <<>> ELSE Head(ss) \o Flatten(Tail(ss))

SeqsUpTo(S, n) == UNION {[1..k -> S] : k \in 0..n}

\* --------------------------------------------------------- instruction text
EachTypes == {"mcqs", "short questions", "long questions", "problems"}

CountTypes == EachTypes \cup {"questions"}

\* the clauses the planner is tried on
Clauses ==
    [form : {"each"}, n : {0, 1, 3}, t : {"mcqs", "short questions", "questions"}, m : {1, 2}]
    \cup [form : {"count"}, n : {0, 1, 3}, t : {"questions", "problems", "long questions"}, m : {0}]
    \cup [form : {"word"}, n : {0}, t : {"mcq", "please"}, m : {0}]

\* r'(\d+)\s*(mcqs?|short...questions?|long...questions?|problems?)\s+of\s+(\d+)\s*marks?\s*each'
ComplexMatch(c) == c.form = "each" /\ c.t \in EachTypes

\* r'(\d+)\s*(?:questions?|mcqs?|problems?)' : the digits must touch the word
LooseCountMatch(c) == c.form \in {"each", "count"} /\ c.t \in {"questions", "mcqs", "problems"}

\* r'(\d+)\s*(?:questions?|mcqs?)'
ExpectedCountMatch(c) == c.form \in {"each", "count"} /\ c.t \in {"questions", "mcqs"}

\* "mcq" in prompt_lower or "multiple choice" in prompt_lower
IsMcqPrompt(p) == \E i \in 1..Len(p) : p[i].t \in {"mcqs", "mcq"}

\* re.search: the captured number of the first of the clauses the pattern matches
\* (hits, their positions), or -1 (None)
FirstMatch(p, hits) ==
    IF hits # {}
    THEN p[CHOOSE i \in hits : \A j \in hits : i <= j].n
    ELSE -1

\* ------------------------------------------------- Mark Distribution Planner
\* question_groups, sorted by position: the (count, marks) of every complex match
RECURSIVE QuestionGroups(_)
QuestionGroups(p) ==
    IF p = <<>> THEN <<>>
    ELSE (IF ComplexMatch(Head(p)) THEN <<[count |-> Head(p).n, marks |-> Head(p).m]>> ELSE <<>>)
         \o QuestionGroups(Tail(p))

\* a planner that repeats the count, marks times
ExpandGroupsSwapped(groups) ==
    Flatten([i \in 1..Len(groups) |-> Repeat(groups[i].count, groups[i].marks)])

ExpandGroups(groups) == Flatten([i \in 1..Len(groups) |-> Repeat(groups[i].marks, groups[i].count)])

\* for i in range(min(diff, len(md))): md[-(i+1)] += 1
ReconcileUp(md, diff) ==
    [i \in 1..Len(md) |-> IF i > Len(md) - Min(diff, Len(md)) THEN md[i] + 1 ELSE md[i]]

\* for i in range(min(diff, len(md))): if md[-(i+1)] > 1: md[-(i+1)] -= 1
ReconcileDown(md, diff) ==
    [i \in 1..Len(md) |-> IF i > Len(md) - Min(diff, Len(md)) /\ md[i] > 1 THEN md[i] - 1 ELSE md[i]]

Reconcile(md, total) ==
    IF SumSeq(md) < total THEN ReconcileUp(md, total - SumSeq(md))
    ELSE IF SumSeq(md) > total THEN ReconcileDown(md, SumSeq(md) - total)
    ELSE md

DefaultCount(total, p) ==
    IF IsMcqPrompt(p) THEN Max(10, total \div 2)
    ELSE IF total <= 20 THEN 4
    ELSE 10

NumQuestions(total, p) ==
    IF FirstMatch(p, {i \in 1..Len(p) : LooseCountMatch(p[i])}) >= 0
    THEN FirstMatch(p, {i \in 1..Len(p) : LooseCountMatch(p[i])})
    ELSE DefaultCount(total, p)

\* a planner that gives the whole remainder to the last slot
EvenSplitRemainderLast(total, n) ==
    [i \in 1..n |-> IF i = n THEN (total \div n) + (total % n) ELSE total \div n]

\* base_marks + 1 for the first (total % n) slots, base_marks for the rest
EvenSplit(total, n) ==
    [i \in 1..n |-> IF i <= total % n THEN (total \div n) + 1 ELSE total \div n]

\* total_marks // num_questions with num_questions == 0 raises ZeroDivisionError
PlannerRaises(total, p) == QuestionGroups(p) = <<>> /\ NumQuestions(total, p) = 0

CalculateMarksDistribution(total, p) ==
    IF QuestionGroups(p) # <<>> THEN Reconcile(ExpandGroups(QuestionGroups(p)), total)
    ELSE IF NumQuestions(total, p) = 0 THEN <<>>
    ELSE EvenSplit(total, NumQuestions(total, p))

\* ------------------------------------------------------------ question text
\* Stems carry the meaning of a question.  "t<k>" mentions a subject keyword,
\* "x<k>" does not; "f<k>" is the text of the k-th fallback question; <k> is
\* the coordinate the embedding model gives the text.
TopicStems == {"t0", "t1", "t2", "t3", "t7"}

OffTopicStems == {"x5"}

FallbackStems == {"f11", "f12", "f13", "f14", "f15"}

DummyText == <<"Generated question to meet requirements">>

Placeholder == "\nA) Option A\nB) Option B\nC) Option C\nD) Option D"

\* "A)" in text
HasOptionA(text) == \E i \in 1..Len(text) : text[i] \in {"A)", "\nA)", Placeholder}

\* "\n" in text
HasNewline(text) == \E i \in 1..Len(text) : text[i] \in {"\nA)", "\nB)", "\nC)", "\nD)", Placeholder}

\* "\nA)" in text
HasNewlineA(text) == \E i \in 1..Len(text) : text[i] \in {"\nA)", Placeholder}

\* text.replace(", B)", "\nB)").replace(", C)", "\nC)").replace(", D)", "\nD)")
SplitOptions(text) ==
    [i \in 1..Len(text) |->
        CASE text[i] = ", B)" -> "\nB)"
          [] text[i] = ", C)" -> "\nC)"
          [] text[i] = ", D)" -> "\nD)"
          [] OTHER -> text[i]]

\* any(keyword in combined_text for keyword in subject_keywords)
MentionsSubject(text) == \E i \in 1..Len(text) : text[i] \in TopicStems \cup FallbackStems

\* ---------------------------------------------------------------- questions
RequiredFields == {"question_text", "blooms_level", "question_type", "marks", "answer_key"}

\* A dict: keys is the set of keys it has; the field of a missing key holds
\* what q.get(key, default) returns for it.
Question(keys, text, blooms, qtype, marks, answer) ==
    [keys |-> keys,
     question_text |-> IF "question_text" \in keys THEN text ELSE <<>>,
     blooms_level |-> IF "blooms_level" \in keys THEN blooms ELSE "",
     question_type |-> IF "question_type" \in keys THEN qtype ELSE "",
     marks |-> IF "marks" \in keys THEN marks ELSE 0,
     answer_key |-> IF "answer_key" \in keys THEN answer ELSE ""]

SetText(q, text) == [q EXCEPT !.question_text = text, !.keys = @ \cup {"question_text"}]

SetMarks(q, m) == [q EXCEPT !.marks = m, !.keys = @ \cup {"marks"}]

SetType(q, t) == [q EXCEPT !.question_type = t, !.keys = @ \cup {"question_type"}]

MarksOf(qs) == [i \in 1..Len(qs) |-> qs[i].marks]

\* sum(q.get("marks", 0) for q in questions)
TotalMarks(qs) == SumSeq(MarksOf(qs))

\* ------------------------------------------------------ Constraint Corrector
McqMatch(c) == c.form \in {"each", "count"} /\ c.t = "mcqs"

ShortMatch(c) == c.form \in {"each", "count"} /\ c.t = "short questions"

LongMatch(c) == c.form \in {"each", "count"} /\ c.t = "long questions"

\* one requirement per type whose pattern matches, in the order of the dict
ExtractQuestionTypeRequirements(p) ==
    (IF FirstMatch(p, {i \in 1..Len(p) : McqMatch(p[i])}) >= 0
        THEN <<[type |-> "MCQ",
                count |-> FirstMatch(p, {i \in 1..Len(p) : McqMatch(p[i])})]>>
        ELSE <<>>)
    \o (IF FirstMatch(p, {i \in 1..Len(p) : ShortMatch(p[i])}) >= 0
        THEN <<[type |-> "Short Answer",
                count |-> FirstMatch(p, {i \in 1..Len(p) : ShortMatch(p[i])})]>>
        ELSE <<>>)
    \o (IF FirstMatch(p, {i \in 1..Len(p) : LongMatch(p[i])}) >= 0
        THEN <<[type |-> "Long Answer",
                count |-> FirstMatch(p, {i \in 1..Len(p) : LongMatch(p[i])})]>>
        ELSE <<>>)

\* Step 1: split the options of an MCQ written on one line
FixMcqFormat(q) ==
    IF q.question_type = "MCQ" /\ HasOptionA(q.question_text) /\ ~HasNewline(q.question_text)
    THEN SetText(q, SplitOptions(q.question_text))
    ELSE q

\* Step 3: questions[:required_count], or clones of the last question appended
RECURSIVE PadWithClones(_, _)
PadWithClones(qs, n) ==
    IF Len(qs) >= n THEN qs
    ELSE PadWithClones(
            Append(qs, SetText(qs[Len(qs)], <<"[Generated] ">> \o qs[Len(qs)].question_text)), n)

EnforceCount(qs, n) ==
    IF Len(qs) > n THEN SubSeq(qs, 1, n)
    ELSE IF qs # <<>> THEN PadWithClones(qs, n)
    ELSE qs

\* new_q['question_text'] raises KeyError when the cloned question has no text
EnforceCountRaises(qs, n) ==
    qs # <<>> /\ Len(qs) < n /\ "question_text" \notin qs[Len(qs)].keys

\* variant of Step 4 that adds the planned marks to the marks a question came with
EnforceMarksAdding(qs, md) ==
    [i \in 1..Len(qs) |->
        IF i <= Len(md) /\ qs[i].marks # md[i] THEN SetMarks(qs[i], qs[i].marks + md[i]) ELSE qs[i]]

\* Step 4: q["marks"] = marks_distribution[i] where they differ
EnforceMarks(qs, md) ==
    [i \in 1..Len(qs) |->
        IF i <= Len(md) /\ qs[i].marks # md[i] THEN SetMarks(qs[i], md[i]) ELSE qs[i]]

\* the type the requirements give slot i (1-based), "" past the declared counts
RECURSIVE TypeAt(_, _)
TypeAt(reqs, i) ==
    IF reqs = <<>> THEN ""
    ELSE IF i <= Head(reqs).count THEN Head(reqs).type
    ELSE TypeAt(Tail(reqs), i - Head(reqs).count)

NeedsOptions(q, t) ==
    q.question_type # t /\ t = "MCQ" /\ ~HasNewlineA(q.question_text)

\* Step 5
EnforceTypes(qs, reqs) ==
    [i \in 1..Len(qs) |->
        IF TypeAt(reqs, i) = "" \/ qs[i].question_type = TypeAt(reqs, i) THEN qs[i]
        ELSE IF NeedsOptions(qs[i], TypeAt(reqs, i))
             THEN SetType(SetText(qs[i], Append(qs[i].question_text, Placeholder)), TypeAt(reqs, i))
             ELSE SetType(qs[i], TypeAt(reqs, i))]

\* questions[idx]["question_text"] += ... raises KeyError on a question without text
EnforceTypesRaises(qs, reqs) ==
    \E i \in 1..Len(qs) :
        /\ TypeAt(reqs, i) # ""
        /\ NeedsOptions(qs[i], TypeAt(reqs, i))
        /\ "question_text" \notin qs[i].keys

\* Step 6: questions[-1]["marks"] += total_marks - actual_marks
ForceResidual(qs, n, total) ==
    IF (Len(qs) # n \/ TotalMarks(qs) # total) /\ TotalMarks(qs) # total /\ qs # <<>>
    THEN [qs EXCEPT ![Len(qs)] = SetMarks(@, @.marks + (total - TotalMarks(qs)))]
    ELSE qs

ForceResidualRaises(qs, n, total) ==
    /\ TotalMarks(qs) # total
    /\ qs # <<>>
    /\ "marks" \notin qs[Len(qs)].keys

Counted(qs, md) == EnforceCount([i \in 1..Len(qs) |-> FixMcqFormat(qs[i])], Len(md))

Typed(qs, md, p) == EnforceTypes(EnforceMarks(Counted(qs, md), md), ExtractQuestionTypeRequirements(p))

StrictValidateRaises(qs, md, total, p) ==
    \/ EnforceCountRaises([i \in 1..Len(qs) |-> FixMcqFormat(qs[i])], Len(md))
    \/ EnforceTypesRaises(EnforceMarks(Counted(qs, md), md), ExtractQuestionTypeRequirements(p))
    \/ ForceResidualRaises(Typed(qs, md, p), Len(md), total)

StrictValidateAndCorrect(qs, md, total, p) == ForceResidual(Typed(qs, md, p), Len(md), total)

\* ---------------------------------------------------------- Similarity Index
\* The embedding model is an external collaborator: a fixed map from texts to
\* vectors, here points of a line, given by the first stem of the text.
StemCoord(tok) ==
    CASE tok = "t0" -> 0 [] tok = "t1" -> 1 [] tok = "t2" -> 2 [] tok = "t3" -> 3
      [] tok = "t7" -> 7 [] tok = "x5" -> 5
      [] tok = "f11" -> 11 [] tok = "f12" -> 12 [] tok = "f13" -> 13
      [] tok = "f14" -> 14 [] tok = "f15" -> 15
      [] OTHER -> 20

IsStem(tok) == tok \in TopicStems \cup OffTopicStems \cup FallbackStems

create_embedding(text) ==
    IF \E i \in 1..Len(text) : IsStem(text[i])
    THEN StemCoord(text[CHOOSE i \in 1..Len(text) :
                            IsStem(text[i]) /\ \A j \in 1..(i - 1) : ~IsStem(text[j])])
    ELSE 20

\* IndexFlatL2 reports squared L2 distances; one unit of the line is 1/6, so
\* that a squared distance d stands for d/36
L2(a, b) == (a - b) * (a - b)

\* 1 / (1 + dist) >= threshold, with dist = d/36 and threshold = th/100
SimilarityAtLeast(d, th) == 100 * 36 >= th * (36 + d)

\* the position of idx among the stored vectors ordered by distance to v
Rank(idx, v, i) ==
    Cardinality({j \in 1..Len(idx) :
        L2(idx[j], v) < L2(idx[i], v) \/ (L2(idx[j], v) = L2(idx[i], v) /\ j < i)})

\* index.search(v, k): the positions of the k nearest vectors, nearest first
Search(idx, v, k) ==
    [r \in 1..Min(k, Len(idx)) |-> CHOOSE i \in 1..Len(idx) : Rank(idx, v, i) = r - 1]

\* the (question_id, distance) pairs check_similarity builds from a search
Similarities(idx, ids, text, k) ==
    LET v == create_embedding(text)
        I == Search(idx, v, k)
        kept == SelectSeq(I, LAMBDA i : i <= Len(ids))
    IN  [r \in 1..Len(kept) |-> [id |-> ids[kept[r]], dist |-> L2(idx[kept[r]], v)]]

check_similarity(idx, ids, text, th, k) ==
    /\ Len(idx) # 0
    /\ \E r \in 1..Len(Similarities(idx, ids, text, k)) :
          SimilarityAtLeast(Similarities(idx, ids, text, k)[r].dist, th)

\* self.index = faiss.IndexFlatL2(self.dimension): no vector is put back
RebuildIndex(idx, ids) == <<>>

\* _check_duplicate: threshold 0.90, k = 5
CheckDuplicate(idx, ids, text) == check_similarity(idx, ids, text, ThresholdPercent, TopK)

\* ------------------------------------------------------------------ Verifier
\* The verifier works on the dict objects of generated_questions themselves:
\* a ref is a question with the position (src) of the object it is in
\* generated_questions, 0 for an object made by the verifier.
Refs(qs) == [i \in 1..Len(qs) |-> [q |-> qs[i], src |-> i]]

Unref(refs) == [i \in 1..Len(refs) |-> refs[i].q]

NewRef(q) == [q |-> q, src |-> 0]

\* a field check that does not ask for answer_key
HasRequiredFieldsButAnswer(q) == (RequiredFields \ {"answer_key"}) \subseteq q.keys

HasRequiredFields(q) == RequiredFields \subseteq q.keys

Accepted(idx, ids, q) == HasRequiredFields(q) /\ ~CheckDuplicate(idx, ids, q.question_text)

\* the questions that pass the field check and the duplicate check, in arrival order
Survivors(idx, ids, qs) == SelectSeq(Refs(qs), LAMBDA r : Accepted(idx, ids, r.q))

RejectReason(q) == IF HasRequiredFields(q) THEN "Duplicate detected" ELSE "Missing required fields"

\* the entries the loop appends to rejected_questions
Rejections(idx, ids, qs, attempt) ==
    LET bad == SelectSeq(qs, LAMBDA q : ~Accepted(idx, ids, q))
    IN  [i \in 1..Len(bad) |-> [reason |-> RejectReason(bad[i]), attempt |-> attempt,
                                question |-> bad[i].question_text]]

\* the texts the loop passes to _check_duplicate, in order: the field check
\* comes first and its "continue" skips the call
Queried(qs) ==
    LET complete == SelectSeq(qs, LAMBDA q : HasRequiredFields(q))
    IN  [i \in 1..Len(complete) |-> complete[i].question_text]

\* re.search(r'(\d+)\s*(?:questions?|mcqs?)', prompt_lower), -1 for None
ExpectedCount(p) == FirstMatch(p, {i \in 1..Len(p) : ExpectedCountMatch(p[i])})

\* sorted(questions, key=lambda x: x["marks"]): stable
SortByMarks(refs) ==
    LET rank(i) == Cardinality({j \in 1..Len(refs) :
                        refs[j].q.marks < refs[i].q.marks
                        \/ (refs[j].q.marks = refs[i].q.marks /\ j < i)})
    IN  [r \in 1..Len(refs) |-> refs[CHOOSE i \in 1..Len(refs) : rank(i) = r - 1]]

\* for q in sorted_questions: if total + q["marks"] <= target_marks: take it
RECURSIVE TakeWhileFits(_, _, _)
TakeWhileFits(refs, total, target) ==
    IF refs = <<>> THEN <<>>
    ELSE IF total + Head(refs).q.marks <= target
         THEN <<Head(refs)>> \o TakeWhileFits(Tail(refs), total + Head(refs).q.marks, target)
         ELSE TakeWhileFits(Tail(refs), total, target)

AdjustQuestionsToMarks(refs, target) ==
    LET current == TotalMarks(Unref(refs))
    IN  IF refs = <<>> \/ current = target THEN refs
        ELSE IF current > target THEN TakeWhileFits(SortByMarks(refs), 0, target)
        ELSE [i \in 1..Len(refs) |->
                IF i <= Min(target - current, Len(refs))
                THEN [refs[i] EXCEPT !.q = SetMarks(@, @.marks + 1)]
                ELSE refs[i]]

\* ------------------------------------------------------------- Forced-Match
DummyQuestion ==
    Question(RequiredFields, DummyText, "Remember", "Short Answer", 1, "Answer provided")

\* f"Additional question: {new_q['question_text'][:50]}..."
CloneText(text) == <<"Additional question: ">> \o Take(text, CloneCutTokens) \o <<"...">>

RECURSIVE ExpandTo(_, _)
ExpandTo(refs, n) ==
    IF Len(refs) >= n THEN refs
    ELSE IF refs # <<>>
         THEN ExpandTo(Append(refs,
                    NewRef(SetText(refs[Len(refs)].q, CloneText(refs[Len(refs)].q.question_text)))), n)
         ELSE ExpandTo(<<NewRef(DummyQuestion)>>, n)

\* Step 1; required_count <= 0 stands for None or 0, both falsy
FixCount(refs, required_count) ==
    IF required_count <= 0 THEN refs
    ELSE IF Len(refs) > required_count THEN SubSeq(refs, 1, required_count)
    ELSE ExpandTo(refs, required_count)

\* variant of the diff > 0 branch that forgets the remainder
AddMarksNoRemainder(refs, diff) ==
    [i \in 1..Len(refs) |->
        [refs[i] EXCEPT !.q = SetMarks(@, @.marks + (diff \div Len(refs)))]]

AddMarks(refs, diff) ==
    [i \in 1..Len(refs) |->
        [refs[i] EXCEPT !.q = SetMarks(@, @.marks + (diff \div Len(refs))
                                            + (IF i - 1 < diff % Len(refs) THEN 1 ELSE 0))]]

RECURSIVE RemoveMarks(_, _)
RemoveMarks(refs, diff) ==
    IF refs = <<>> THEN <<>>
    ELSE IF diff > 0 /\ Head(refs).q.marks > 1
         THEN LET reduction == Min(Head(refs).q.marks - 1, diff)
              IN  <<[Head(refs) EXCEPT !.q = SetMarks(@, @.marks - reduction)]>>
                  \o RemoveMarks(Tail(refs), diff - reduction)
         ELSE <<Head(refs)>> \o RemoveMarks(Tail(refs), diff)

\* Step 2
FixMarks(refs, required_marks) ==
    LET current == TotalMarks(Unref(refs))
    IN  IF current = required_marks \/ refs = <<>> THEN refs
        ELSE IF required_marks > current THEN AddMarks(refs, required_marks - current)
        ELSE RemoveMarks(refs, current - required_marks)

ForceExactMatch(refs, required_marks, required_count) ==
    FixMarks(FixCount(refs, required_count), required_marks)

\* ------------------------------------------------------ fallback questions
FallbackQuestion(i) ==
    Question(RequiredFields,
             <<CASE i = 1 -> "f11" [] i = 2 -> "f12" [] i = 3 -> "f13" [] i = 4 -> "f14" [] OTHER -> "f15">>,
             CASE i = 1 -> "Remember" [] i = 2 -> "Understand" [] i = 3 -> "Apply"
               [] i = 4 -> "Analyze" [] OTHER -> "Evaluate",
             CASE i \in {1, 4} -> "Reasoning" [] i \in {2, 5} -> "Analytical" [] OTHER -> "Calculation",
             FallbackMarks,
             "Answer")

\* questions[:int(state["total_marks"] / 10)]
CreateFallbackQuestions(total) ==
    [i \in 1..Min(FallbackMax, total \div FallbackDivisor) |-> FallbackQuestion(i)]

\* ================================================================== state
VARIABLES
    total_marks, prompt,            \* the request
    resource_context,
    node,                           \* the graph node that runs next, "END" when the run is over
    current_step, retry_count, errors,
    marks_distribution,             \* the plan of the latest question_generation_agent call
    generated_questions, verified_questions, final_paper,
    generation_history, rejected_questions,
    forced,                         \* whether _force_exact_match has run
    llm_calls,                      \* how many times llm.ainvoke has been called
    index, question_ids,            \* EmbeddingService: the FAISS vectors and the id list
    corpus,                         \* the (id, text) pairs added and not deleted since
    probe,                          \* the argument and result of the latest library call checked
    tasks,                          \* the coroutines in flight on the event loop, each where it stands
    heap                            \* the dict and list objects of the requests in flight, by identity

reqVars == <<total_marks, prompt>>

runVars == <<resource_context, node, current_step, retry_count, errors, marks_distribution,
             generated_questions, verified_questions, final_paper, generation_history,
             rejected_questions, forced, llm_calls>>

indexVars == <<index, question_ids, corpus>>

vars == <<reqVars, runVars, indexVars, probe, tasks, heap>>

\* --------------------------------------------------------------- the request
Clause(form, n, t, m) == [form |-> form, n |-> n, t |-> t, m |-> m]

\* generate_paper is called with a total and an instruction text
Requests ==
    {   [total |-> 20, prompt |-> <<Clause("count", 2, "questions", 0)>>],
        [total |-> 5,  prompt |-> <<Clause("count", 2, "questions", 0)>>],
        [total |-> 5,  prompt |-> <<Clause("word", 0, "please", 0)>>],
        [total |-> 4,  prompt |-> <<Clause("each", 2, "mcqs", 1), Clause("each", 1, "short questions", 2)>>],
        [total |-> 5,  prompt |-> <<Clause("each", 2, "long questions", 2)>>],
        [total |-> 9,  prompt |-> <<Clause("each", 2, "short questions", 1)>>],
        [total |-> 3,  prompt |-> <<Clause("each", 2, "long questions", 2), Clause("count", 3, "questions", 0)>>],
        [total |-> 10, prompt |-> <<Clause("count", 0, "questions", 0)>>] }

\* ------------------------------------------------- the generation capability
AllKeys == RequiredFields

GoodShort == Question(AllKeys, <<"t7">>, "Remember", "Short Answer", 5, "ans")

GoodLong == Question(AllKeys, <<"t3">>, "Apply", "Long Answer", 2, "ans")

NearDuplicate == Question(AllKeys, <<"t1", "A)", ", B)", ", C)", ", D)">>, "Apply", "MCQ", 1, "ans")

NoAnswer == Question(AllKeys \ {"answer_key"}, <<"t3">>, "Apply", "Long Answer", 2, "ans")

OffTopic == Question(AllKeys, <<"x5">>, "[unhashable]", "Short Answer", 2, "ans")

\* the lists the capability may answer with
LLMLists ==
    {   <<>>,
        <<GoodShort, GoodLong>>,
        <<GoodShort, GoodLong, GoodShort>>,
        <<GoodShort, NearDuplicate>>,
        <<NearDuplicate, GoodShort>>,
        <<NoAnswer>>,
        <<NoAnswer, GoodShort>>,
        <<OffTopic>> }

\* what one call of the external capability can lead to
LLMResponses ==
    {[kind |-> k, questions |-> <<>>] : k \in {"call_failure", "not_json", "not_list"}}
    \cup {[kind |-> "list", questions |-> qs] : qs \in LLMLists}

\* relevance_percentage < 40, with 0 for an empty list
RelevanceLow(qs) ==
    LET relevant == Cardinality({i \in 1..Len(qs) : MentionsSubject(qs[i].question_text)})
    IN  IF qs = <<>> THEN TRUE ELSE relevant * 100 < RelevancePercent * Len(qs)

\* ------------------------------------------------------------------- routing
route_after_rqg(step) == IF step = "error" THEN "END" ELSE "generate"

\* variant of route_after_generate without the error edge
route_after_generate_no_error_edge(step) ==
    IF step = "question_generation" THEN "generate" ELSE "verify"

route_after_generate(step) ==
    IF step = "error" THEN "END"
    ELSE IF step = "question_generation" THEN "generate"
    ELSE "verify"

route_after_verify(step) ==
    IF step = "error" THEN "END"
    ELSE IF step = "question_generation" THEN "generate"
    ELSE "assemble"

route_after_assemble(step) == "END"

\* ------------------------------------------------------------ context text
\* A text is a sequence of runs: Run(ch, n) stands for n characters of kind ch.
Run(ch, n) == [ch |-> ch, n |-> n]

\* len(text)
Chars(text) == SumSeq([i \in 1..Len(text) |-> text[i].n])

\* "\n\n".join(context_texts)
RECURSIVE Join(_)
Join(texts) ==
    IF texts = <<>> THEN <<>>
    ELSE IF Len(texts) = 1 THEN texts[1]
    ELSE Head(texts) \o <<Run("\n", 2)>> \o Join(Tail(texts))

\* a slice that keeps the last k characters: text[-k:]
RECURSIVE SliceFromEnd(_, _)
SliceFromEnd(text, k) ==
    IF text = <<>> \/ k <= 0 THEN <<>>
    ELSE IF text[Len(text)].n <= k
         THEN SliceFromEnd(SubSeq(text, 1, Len(text) - 1), k - text[Len(text)].n) \o <<text[Len(text)]>>
         ELSE <<Run(text[Len(text)].ch, k)>>

\* text[:k]
RECURSIVE Slice(_, _)
Slice(text, k) ==
    IF text = <<>> \/ k <= 0 THEN <<>>
    ELSE IF Head(text).n <= k THEN <<Head(text)>> \o Slice(Tail(text), k - Head(text).n)
    ELSE <<Run(Head(text).ch, k)>>

\* ---------------------------------------------------------------- the agents
EmptyPaper == [keys |-> {}, total_marks |-> 0, questions |-> <<>>, blooms_distribution |-> <<>>]

\* no library call observed yet
NoProbe == [op |-> "none"]

\* one request on its own: no other coroutine in flight
Alone ==
    /\ tasks = <<>>
    /\ heap = <<>>

\* the state generate_paper starts the graph with
InitialState ==
    /\ resource_context = <<>>
    /\ node = "rqg"
    /\ current_step = "rqg"
    /\ retry_count = 0
    /\ errors = <<>>
    /\ marks_distribution = <<>>
    /\ generated_questions = <<>>
    /\ verified_questions = <<>>
    /\ final_paper = EmptyPaper
    /\ generation_history = <<>>
    /\ rejected_questions = <<>>
    /\ forced = FALSE
    /\ llm_calls = 0

\* rqg_agent with the context_texts it built, or with a failing collaborator
RqgStep(ok, texts) ==
    /\ node = "rqg"
    /\ IF ok
       THEN \E full_context \in {Join(texts)} :
                /\ resource_context' = IF Chars(full_context) > ContextBudget
                                        THEN Slice(full_context, ContextBudget)
                                        ELSE full_context
                /\ current_step' = "question_generation"
                /\ probe' = [op |-> "context", full |-> full_context]
                /\ UNCHANGED errors
       ELSE /\ errors' = Append(errors, "RQG Agent Error")
            /\ current_step' = "error"
            /\ probe' = [op |-> "context_failed"]
            /\ UNCHANGED resource_context
    /\ node' = route_after_rqg(current_step')
    /\ UNCHANGED <<retry_count, marks_distribution, generated_questions, verified_questions,
                   final_paper, generation_history, rejected_questions, forced, llm_calls>>
    /\ UNCHANGED <<tasks, heap, reqVars, indexVars>>

\* the context a pipeline run gathers: one resource excerpt and one exemplar paper
GatheredTexts == <<<<Run("resource", 2000)>>, <<Run("paper", 500)>>>>

RqgAgent == \E ok \in BOOLEAN : RqgStep(ok, GatheredTexts)

\* variant of the outer except that retries without counting the failure
GenerationFailedUncounted ==
    /\ errors' = Append(errors, "Question Generation Error")
    /\ retry_count' = retry_count
    /\ current_step' = IF retry_count + 1 < GenRetryLimit THEN "question_generation" ELSE "error"
    /\ UNCHANGED <<generated_questions, generation_history>>

\* the outer except of question_generation_agent
GenerationFailed ==
    /\ errors' = Append(errors, "Question Generation Error")
    /\ retry_count' = retry_count + 1
    /\ current_step' = IF retry_count + 1 < GenRetryLimit THEN "question_generation" ELSE "error"
    /\ UNCHANGED <<generated_questions, generation_history>>

GenerationRecord(attempt, n, marks, success) ==
    [phase |-> "generation", attempt |-> attempt, questions_generated |-> n,
     marks_generated |-> marks, success |-> success]

\* a generation step that starts the retry counter afresh when it succeeds
GenerationDoneRestarting(qs, n, marks) ==
    /\ generated_questions' = qs
    /\ current_step' = "verification"
    /\ generation_history' = Append(generation_history,
                                    GenerationRecord(retry_count, n, marks, qs # <<>>))
    /\ retry_count' = 0
    /\ UNCHANGED errors

GenerationDone(qs, n, marks) ==
    /\ generated_questions' = qs
    /\ current_step' = "verification"
    /\ generation_history' = Append(generation_history,
                                    GenerationRecord(retry_count, n, marks, qs # <<>>))
    /\ UNCHANGED <<errors, retry_count>>

\* a try block without the relevance check
ParsedListRaisesRelevanceUnchecked(qs, md) ==
    \/ StrictValidateRaises(qs, md, total_marks, prompt)
    \/ \E corrected \in {StrictValidateAndCorrect(qs, md, total_marks, prompt)} :
           \/ Len(corrected) # Len(md)
           \/ TotalMarks(corrected) # total_marks

\* what the try block does with the parsed list: correct, check, hand over or raise
ParsedListRaises(qs, md) ==
    \/ StrictValidateRaises(qs, md, total_marks, prompt)
    \/ \E corrected \in {StrictValidateAndCorrect(qs, md, total_marks, prompt)} :
           \/ RelevanceLow(corrected) /\ retry_count < RelevanceRetryLimit
           \/ Len(corrected) # Len(md)
           \/ TotalMarks(corrected) # total_marks

QuestionGenerationAgent ==
    /\ node = "generate"
    /\ IF PlannerRaises(total_marks, prompt)
       THEN /\ GenerationFailed
            /\ probe' = NoProbe
            /\ UNCHANGED <<marks_distribution, llm_calls>>
       ELSE \E md \in {CalculateMarksDistribution(total_marks, prompt)} :
                /\ marks_distribution' = md
                /\ \E r \in LLMResponses :
                      /\ llm_calls' = llm_calls + 1
                      /\ probe' = [op |-> "response", response |-> r]
                      /\ CASE r.kind = "not_json" ->
                                GenerationDone(CreateFallbackQuestions(total_marks), 0, 0)
                           [] r.kind = "list" /\ ~ParsedListRaises(r.questions, md) ->
                                \E qs \in {StrictValidateAndCorrect(r.questions, md, total_marks, prompt)} :
                                    GenerationDone(qs, Len(qs), TotalMarks(qs))
                           [] OTHER -> GenerationFailed
    /\ node' = route_after_generate(current_step')
    /\ UNCHANGED <<resource_context, verified_questions, final_paper, rejected_questions, forced>>
    /\ UNCHANGED <<tasks, heap, reqVars, indexVars>>

\* the marks the verifier wrote into the dict objects it shares with generated_questions
WriteBack(qs, refs) ==
    [i \in 1..Len(qs) |->
        IF \E r \in 1..Len(refs) : refs[r].src = i
        THEN refs[CHOOSE r \in 1..Len(refs) : refs[r].src = i].q
        ELSE qs[i]]

VerificationFailedRecord(attempt) ==
    [phase |-> "verification_failed", attempt |-> attempt, retry_triggered |-> TRUE]

VerifierAgent ==
    /\ node = "verify"
    /\ \E survivors \in {Survivors(index, question_ids, generated_questions)},
          expected_count \in {ExpectedCount(prompt)} :
       \E verified \in {IF TotalMarks(Unref(survivors)) # total_marks
                           \/ (expected_count > 0 /\ Len(survivors) # expected_count)
                        THEN AdjustQuestionsToMarks(survivors, total_marks)
                        ELSE survivors} :
       \E marks_ok \in {TotalMarks(Unref(verified)) = total_marks},
          count_ok \in {expected_count <= 0 \/ Len(verified) = expected_count},
          adjusted \in {WriteBack(generated_questions, verified)},
          rejections \in {Rejections(index, question_ids, generated_questions, retry_count)} :
           /\ rejected_questions' = rejected_questions \o rejections
           /\ probe' = [op |-> "verifier_loop",
                        queried |-> Queried(generated_questions),
                        verified |-> Unref(survivors)]
           /\ IF marks_ok /\ count_ok
              THEN /\ verified_questions' = Unref(verified)
                   /\ current_step' = "assembly"
                   /\ generated_questions' = adjusted
                   /\ UNCHANGED <<retry_count, generation_history, forced>>
              ELSE /\ retry_count' = retry_count + 1
                   /\ IF retry_count + 1 < VerifyRetryLimit
                      THEN /\ generation_history' =
                                Append(generation_history, VerificationFailedRecord(retry_count))
                           /\ current_step' = "question_generation"
                           /\ generated_questions' = adjusted
                           /\ UNCHANGED <<verified_questions, forced>>
                      ELSE \E counted \in {FixCount(verified, expected_count)} :
                           \E forcedRefs \in {FixMarks(counted, total_marks)} :
                           /\ verified_questions' = Unref(forcedRefs)
                           /\ current_step' = "assembly"
                           /\ forced' = TRUE
                           /\ generated_questions' = WriteBack(adjusted, forcedRefs)
                           /\ UNCHANGED generation_history
    /\ node' = route_after_verify(current_step')
    /\ UNCHANGED <<resource_context, errors, marks_distribution, final_paper, llm_calls>>
    /\ UNCHANGED <<tasks, heap, reqVars, indexVars>>

\* a tally that notes each level once, however many questions have it
BloomsDistributionByLevel(qs) ==
    [l \in {qs[i].blooms_level : i \in 1..Len(qs)} |-> 1]

\* blooms_dist[level] = blooms_dist.get(level, 0) + 1
BloomsDistribution(qs) ==
    [l \in {qs[i].blooms_level : i \in 1..Len(qs)} |->
        Cardinality({i \in 1..Len(qs) : qs[i].blooms_level = l})]

\* a JSON list or object as blooms_level cannot be a dict key: TypeError
AssemblyRaises(qs) == \E i \in 1..Len(qs) : qs[i].blooms_level = "[unhashable]"

CompletedRecord(qs, retries, rejected) ==
    [phase |-> "completed", questions_final |-> Len(qs), marks_final |-> TotalMarks(qs),
     success |-> TRUE, total_retries |-> retries, total_rejected |-> rejected]

\* an assembler that lets go of the context once the paper is built
AssemblyAgentDroppingContext ==
    /\ node = "assemble"
    /\ IF AssemblyRaises(verified_questions)
       THEN /\ errors' = Append(errors, "Assembly Error")
            /\ current_step' = "error"
            /\ UNCHANGED <<final_paper, generation_history>>
       ELSE /\ final_paper' =
                [keys |-> {"subject", "department", "total_marks", "questions", "blooms_distribution"},
                 total_marks |-> TotalMarks(verified_questions),
                 questions |-> verified_questions,
                 blooms_distribution |-> BloomsDistribution(verified_questions)]
            /\ generation_history' = Append(generation_history,
                    CompletedRecord(verified_questions, retry_count, Len(rejected_questions)))
            /\ current_step' = "complete"
            /\ UNCHANGED errors
    /\ node' = route_after_assemble(current_step')
    /\ probe' = NoProbe
    /\ resource_context' = <<>>
    /\ UNCHANGED <<retry_count, marks_distribution, generated_questions,
                   verified_questions, rejected_questions, forced, llm_calls>>
    /\ UNCHANGED <<tasks, heap, reqVars, indexVars>>

AssemblyAgent ==
    /\ node = "assemble"
    /\ IF AssemblyRaises(verified_questions)
       THEN /\ errors' = Append(errors, "Assembly Error")
            /\ current_step' = "error"
            /\ UNCHANGED <<final_paper, generation_history>>
       ELSE /\ final_paper' =
                [keys |-> {"subject", "department", "total_marks", "questions", "blooms_distribution"},
                 total_marks |-> TotalMarks(verified_questions),
                 questions |-> verified_questions,
                 blooms_distribution |-> BloomsDistribution(verified_questions)]
            /\ generation_history' = Append(generation_history,
                    CompletedRecord(verified_questions, retry_count, Len(rejected_questions)))
            /\ current_step' = "complete"
            /\ UNCHANGED errors
    /\ node' = route_after_assemble(current_step')
    /\ probe' = NoProbe
    /\ UNCHANGED <<resource_context, retry_count, marks_distribution, generated_questions,
                   verified_questions, rejected_questions, forced, llm_calls>>
    /\ UNCHANGED <<tasks, heap, reqVars, indexVars>>

\* ------------------------------------------------------- pipeline: one request
\* the index a request meets: one approved question, text "t0", added as "p1_0"
Init ==
    /\ \E r \in Requests : total_marks = r.total /\ prompt = r.prompt
    /\ InitialState
    /\ index = <<create_embedding(<<"t0">>)>>
    /\ question_ids = <<"p1_0">>
    /\ corpus = <<[id |-> "p1_0", text |-> <<"t0">>]>>
    /\ probe = NoProbe
    /\ Alone

Next ==
    \/ RqgAgent
    \/ QuestionGenerationAgent
    \/ VerifierAgent
    \/ AssemblyAgent

Spec == Init /\ [][Next]_vars

\* requests whose total is smaller than what the instruction declares
TightRequests ==
    {   [total |-> 2, prompt |-> <<Clause("count", 3, "questions", 0)>>],
        [total |-> 3, prompt |-> <<Clause("each", 2, "long questions", 10)>>],
        [total |-> 1, prompt |-> <<Clause("each", 2, "long questions", 2)>>] }

TightInit ==
    /\ \E r \in TightRequests : total_marks = r.total /\ prompt = r.prompt
    /\ InitialState
    /\ index = <<create_embedding(<<"t0">>)>>
    /\ question_ids = <<"p1_0">>
    /\ corpus = <<[id |-> "p1_0", text |-> <<"t0">>]>>
    /\ probe = NoProbe
    /\ Alone

SpecTight == TightInit /\ [][Next]_vars

\* ---------------------------------------------------- the planner on its own
Idle ==
    /\ InitialState
    /\ index = <<>>
    /\ question_ids = <<>>
    /\ corpus = <<>>
    /\ probe = NoProbe
    /\ Alone

PlannerTotals == {1, 4, 5, 20, 50}

\* the scenarios of the specification, next to every short prompt
PlannerScenarios ==
    {   [total |-> 20, prompt |-> <<Clause("each", 10, "mcqs", 1), Clause("each", 5, "short questions", 2)>>],
        [total |-> 40, prompt |-> <<Clause("count", 8, "questions", 0)>>] }

PlannerInit ==
    /\ \/ total_marks \in PlannerTotals /\ prompt \in SeqsUpTo(Clauses, MaxClauses)
       \/ \E r \in PlannerScenarios : total_marks = r.total /\ prompt = r.prompt
    /\ Idle

\* _calculate_marks_distribution(total_marks, prompt) returns
PlannerReturns ==
    /\ probe.op = "none"
    /\ ~PlannerRaises(total_marks, prompt)
    /\ marks_distribution' = CalculateMarksDistribution(total_marks, prompt)
    /\ probe' = [op |-> "plan"]
    /\ UNCHANGED <<resource_context, node, current_step, retry_count, errors, generated_questions,
                   verified_questions, final_paper, generation_history, rejected_questions,
                   forced, llm_calls>>
    /\ UNCHANGED <<tasks, heap, reqVars, indexVars>>

\* ... or raises ZeroDivisionError
PlannerThrows ==
    /\ probe.op = "none"
    /\ PlannerRaises(total_marks, prompt)
    /\ probe' = [op |-> "raised"]
    /\ UNCHANGED <<tasks, heap, reqVars, runVars, indexVars>>

PlannerNext == PlannerReturns \/ PlannerThrows

SpecPlanner == PlannerInit /\ [][PlannerNext]_vars

\* -------------------------------------------------- Forced-Match on its own
SurvivorMarks == {0, 1, 2, 5}

Survivor(m) == SetMarks(GoodShort, m)

\* the survivors, the expected count (>= 1) and the required total (>= expected)
ForceInputs ==
    {[survivors |-> s, expected |-> e, total |-> t] :
        s \in SeqsUpTo({Survivor(m) : m \in SurvivorMarks}, MaxSurvivors),
        e \in 1..(MaxSurvivors + 1),
        t \in 1..(2 * MaxSurvivors + 3)}

\* 9 survivors of 4 marks against an expected count of 10 and a total of 40
ForceScenario == [survivors |-> Repeat(Survivor(4), 9), expected |-> 10, total |-> 40]

ForceInit ==
    /\ \E x \in {y \in ForceInputs : y.total >= y.expected} \cup {ForceScenario} :
          /\ total_marks = x.total
          /\ probe = [op |-> "force_input", survivors |-> x.survivors, expected |-> x.expected]
    /\ prompt = <<>>
    /\ InitialState
    /\ index = <<>>
    /\ question_ids = <<>>
    /\ corpus = <<>>
    /\ Alone

\* verified = self._force_exact_match(verified, required_marks, expected_count)
ForceCall ==
    /\ probe.op = "force_input"
    /\ verified_questions' = Unref(ForceExactMatch(Refs(probe.survivors), total_marks, probe.expected))
    /\ forced' = TRUE
    /\ probe' = [probe EXCEPT !.op = "forced"]
    /\ UNCHANGED <<resource_context, node, current_step, retry_count, errors, marks_distribution,
                   generated_questions, final_paper, generation_history, rejected_questions,
                   llm_calls>>
    /\ UNCHANGED <<tasks, heap, reqVars, indexVars>>

SpecForce == ForceInit /\ [][ForceCall]_vars

\* ------------------------------------------ the Constraint Corrector on its own
NoText == Question(AllKeys \ {"question_text"}, <<>>, "Apply", "Short Answer", 2, "ans")

NoMarks == Question(AllKeys \ {"marks"}, <<"t2">>, "Apply", "MCQ", 0, "ans")

McqLines == Question(AllKeys, <<"t2", "\nA)", "\nB)", "\nC)", "\nD)">>, "Apply", "MCQ", 3, "ans")

InlineShort == Question(AllKeys, <<"t2", "A)", ", B)", ", C)", ", D)">>, "Apply", "Short Answer", 3, "ans")

CorrectorQuestions ==
    {GoodShort, GoodLong, NearDuplicate, NoAnswer, OffTopic, NoText, NoMarks, McqLines, InlineShort}

CorrectorRequests ==
    Requests \cup
    {   [total |-> 4, prompt |-> <<Clause("each", 1, "long questions", 2), Clause("each", 2, "mcqs", 1)>>],
        [total |-> 9, prompt |-> <<Clause("each", 2, "mcqs", 1)>>],
        [total |-> 2, prompt |-> <<Clause("count", 3, "mcqs", 0)>>],
        [total |-> 4, prompt |-> <<Clause("each", 2, "mcqs", 1), Clause("each", 1, "mcqs", 2)>>] }

CorrectorInit ==
    /\ \E r \in CorrectorRequests : total_marks = r.total /\ prompt = r.prompt
    /\ \E qs \in SeqsUpTo(CorrectorQuestions, MaxCand) : probe = [op |-> "parsed", questions |-> qs]
    /\ InitialState
    /\ index = <<>>
    /\ question_ids = <<>>
    /\ corpus = <<>>
    /\ Alone

\* questions = self._strict_validate_and_correct(questions, marks_distribution, total, prompt)
CorrectorCall ==
    /\ probe.op \in {"parsed", "corrected"}
    /\ ~PlannerRaises(total_marks, prompt)
    /\ LET md == CalculateMarksDistribution(total_marks, prompt)
       IN  /\ ~StrictValidateRaises(probe.questions, md, total_marks, prompt)
           /\ marks_distribution' = md
           /\ generated_questions' = probe.questions
           /\ probe' = [op |-> IF probe.op = "parsed" THEN "corrected" ELSE "corrected twice",
                        questions |-> StrictValidateAndCorrect(probe.questions, md, total_marks, prompt)]
    /\ UNCHANGED <<resource_context, node, current_step, retry_count, errors, verified_questions,
                   final_paper, generation_history, rejected_questions, forced, llm_calls>>
    /\ UNCHANGED <<tasks, heap, reqVars, indexVars>>

SpecCorrector == CorrectorInit /\ [][CorrectorCall]_vars

\* ------------------------------------------------ the Similarity Index on its own
IndexTexts == {<<"t0">>, <<"t3">>, <<"t7">>}

\* identifiers are unique: f"{paper_id}_{i}" on approval, "<resource_id>:<k>" for a resource
IndexIds == {"r1:0", "r1:1", "p1_0", "p2_0"}

\* qid.startswith(f"{resource_id}:")
BelongsTo(id, rid) == rid = "r1" /\ id \in {"r1:0", "r1:1"}

Entry(id, text) == [id |-> id, text |-> text]

RECURSIVE RemoveFirst(_, _)
RemoveFirst(seq, x) ==
    IF seq = <<>> THEN <<>>
    ELSE IF Head(seq) = x THEN Tail(seq)
    ELSE <<Head(seq)>> \o RemoveFirst(Tail(seq), x)

RECURSIVE RemoveFirstEntry(_, _)
RemoveFirstEntry(seq, id) ==
    IF seq = <<>> THEN <<>>
    ELSE IF Head(seq).id = id THEN Tail(seq)
    ELSE <<Head(seq)>> \o RemoveFirstEntry(Tail(seq), id)

IndexInit ==
    /\ total_marks = 5
    /\ prompt = <<>>
    /\ Idle

\* add_question(question_text, question_id)
AddQuestion ==
    /\ Len(question_ids) < MaxIndexLen
    /\ \E text \in IndexTexts, id \in IndexIds :
          /\ \A i \in 1..Len(question_ids) : question_ids[i] # id
          /\ index' = Append(index, create_embedding(text))
          /\ question_ids' = Append(question_ids, id)
          /\ corpus' = Append(corpus, Entry(id, text))
    /\ probe' = [op |-> "add"]
    /\ UNCHANGED <<tasks, heap, reqVars, runVars>>

\* add_questions_batch([(text, id), (text, id)])
AddQuestionsBatch ==
    /\ Len(question_ids) + 2 <= MaxIndexLen
    /\ \E t1 \in IndexTexts, t2 \in IndexTexts, id1 \in IndexIds, id2 \in IndexIds :
          /\ id1 # id2
          /\ \A i \in 1..Len(question_ids) : question_ids[i] \notin {id1, id2}
          /\ index' = index \o <<create_embedding(t1), create_embedding(t2)>>
          /\ question_ids' = question_ids \o <<id1, id2>>
          /\ corpus' = corpus \o <<Entry(id1, t1), Entry(id2, t2)>>
    /\ probe' = [op |-> "add_batch"]
    /\ UNCHANGED <<tasks, heap, reqVars, runVars>>

\* remove_question(question_id), for an id the list holds
RemoveQuestion ==
    /\ \E id \in IndexIds :
          /\ \E i \in 1..Len(question_ids) : question_ids[i] = id
          /\ question_ids' = RemoveFirst(question_ids, id)
          /\ index' = RebuildIndex(index, question_ids')
          /\ corpus' = RemoveFirstEntry(corpus, id)
    /\ probe' = [op |-> "remove"]
    /\ UNCHANGED <<tasks, heap, reqVars, runVars>>

\* delete_embeddings_by_resource(resource_id), when it deletes something
DeleteEmbeddingsByResource ==
    /\ \E rid \in {"r1"} :
          /\ \E i \in 1..Len(question_ids) : BelongsTo(question_ids[i], rid)
          /\ question_ids' = SelectSeq(question_ids, LAMBDA id : ~BelongsTo(id, rid))
          /\ index' = RebuildIndex(index, question_ids')
          /\ corpus' = SelectSeq(corpus, LAMBDA e : ~BelongsTo(e.id, rid))
    /\ probe' = [op |-> "delete"]
    /\ UNCHANGED <<tasks, heap, reqVars, runVars>>

\* clear_index()
ClearIndex ==
    /\ question_ids # <<>>
    /\ index' = <<>>
    /\ question_ids' = <<>>
    /\ corpus' = <<>>
    /\ probe' = [op |-> "clear"]
    /\ UNCHANGED <<tasks, heap, reqVars, runVars>>

\* whether some retained entry has similarity >= 0.90 to the text
MatchesCorpus(text) ==
    \E i \in 1..Len(corpus) :
        SimilarityAtLeast(L2(create_embedding(corpus[i].text), create_embedding(text)),
                          ThresholdPercent)

VerifierCandidates == {GoodShort, GoodLong, NearDuplicate, NoAnswer}

\* the verifier's loop over generated_questions = [q]
VerifyCandidate ==
    /\ \E q \in VerifierCandidates :
          probe' = [op |-> "verify",
                    question |-> q,
                    matched |-> MatchesCorpus(q.question_text),
                    verified |-> Unref(Survivors(index, question_ids, <<q>>)),
                    rejected |-> Rejections(index, question_ids, <<q>>, 0)]
    /\ UNCHANGED <<tasks, heap, reqVars, runVars, indexVars>>

IndexNext ==
    \/ AddQuestion
    \/ AddQuestionsBatch
    \/ RemoveQuestion
    \/ DeleteEmbeddingsByResource
    \/ ClearIndex
    \/ VerifyCandidate

SpecIndex == IndexInit /\ [][IndexNext]_vars

\* ------------------------------------------- the Context Assembler on its own
ContextTexts == {<<Run("resource", 7499)>>, <<Run("paper", 8000)>>, <<Run("draft", 20000)>>}

RqgInit ==
    /\ \E r \in Requests : total_marks = r.total /\ prompt = r.prompt
    /\ Idle

RqgCall == \E ok \in BOOLEAN, texts \in SeqsUpTo(ContextTexts, MaxContextTexts) : RqgStep(ok, texts)

SpecRqg == RqgInit /\ [][RqgCall]_vars

\* ----------------------------------- the Similarity Index under the event loop
\* Every caller of the index is a coroutine of one asyncio event loop
\* (teacher.py: async def approve_paper, delete_resource, generate_paper_endpoint;
\* main.py: uvicorn.run, one process).  A task stands at "handler" while it is
\* suspended at an await of its handler, and at the name of the next statement
\* while it is inside an index method.
Tasks == 1..MaxTasks

\* an index method with an await between its two writes
SuspendsBetweenWrites(pc) == pc \in {"handler", "append_id", "extend_ids", "rebuild"}

\* whether the event loop can run another task while this one stands at pc:
\* add_question, add_questions_batch, remove_question, _rebuild_index,
\* check_similarity and the body of delete_embeddings_by_resource hold no await
Suspends(pc) == pc = "handler"

\* the loop runs task t: every other task is suspended
CanRun(t) == \A o \in Tasks \ {t} : Suspends(tasks[o].pc)

Parked == [pc |-> "handler", items |-> <<>>, seen |-> <<>>]

At(t, pc, items, seen) == [tasks EXCEPT ![t] = [pc |-> pc, items |-> items, seen |-> seen]]

IdsOf(items) == [i \in 1..Len(items) |-> items[i].id]

VectorsOf(items) == [i \in 1..Len(items) |-> create_embedding(items[i].text)]

\* identifiers no request has used yet: f"{paper_id}_{i}" is unique to a paper
UnusedIds ==
    {id \in IndexIds :
        /\ \A i \in 1..Len(question_ids) : question_ids[i] # id
        /\ \A o \in Tasks : \A i \in 1..Len(tasks[o].items) : tasks[o].items[i].id # id}

LoopInit ==
    /\ total_marks = 5
    /\ prompt = <<>>
    /\ InitialState
    /\ index = <<>>
    /\ question_ids = <<>>
    /\ corpus = <<>>
    /\ probe = NoProbe
    /\ tasks = [t \in Tasks |-> Parked]
    /\ heap = <<>>

\* add_question: embedding = ...; self.index.add(np.array([embedding]))
CallAddQuestion(t) ==
    /\ CanRun(t)
    /\ tasks[t].pc = "handler"
    /\ Len(index) < MaxIndexLen
    /\ Len(question_ids) < MaxIndexLen
    /\ \E text \in IndexTexts, id \in UnusedIds :
          /\ index' = Append(index, create_embedding(text))
          /\ tasks' = At(t, "append_id", <<Entry(id, text)>>, <<>>)
    /\ probe' = [op |-> "call", task |-> t]
    /\ UNCHANGED <<question_ids, corpus>>
    /\ UNCHANGED <<heap, reqVars, runVars>>

\* add_question: self.question_ids.append(question_id); self._save_index()
AppendId(t) ==
    /\ CanRun(t)
    /\ tasks[t].pc = "append_id"
    /\ question_ids' = question_ids \o IdsOf(tasks[t].items)
    /\ corpus' = corpus \o tasks[t].items
    /\ tasks' = At(t, "handler", <<>>, <<>>)
    /\ probe' = [op |-> "add", task |-> t]
    /\ UNCHANGED index
    /\ UNCHANGED <<heap, reqVars, runVars>>

\* add_questions_batch: embeddings = ...; self.index.add(embeddings)
CallAddQuestionsBatch(t) ==
    /\ CanRun(t)
    /\ tasks[t].pc = "handler"
    /\ Len(index) + 2 <= MaxIndexLen
    /\ Len(question_ids) + 2 <= MaxIndexLen
    /\ \E t1 \in IndexTexts, t2 \in IndexTexts, id1 \in UnusedIds, id2 \in UnusedIds :
          /\ id1 # id2
          /\ index' = index \o <<create_embedding(t1), create_embedding(t2)>>
          /\ tasks' = At(t, "extend_ids", <<Entry(id1, t1), Entry(id2, t2)>>, <<>>)
    /\ probe' = [op |-> "call", task |-> t]
    /\ UNCHANGED <<question_ids, corpus>>
    /\ UNCHANGED <<heap, reqVars, runVars>>

\* add_questions_batch: self.question_ids.extend(ids); self._save_index()
ExtendIds(t) ==
    /\ CanRun(t)
    /\ tasks[t].pc = "extend_ids"
    /\ question_ids' = question_ids \o IdsOf(tasks[t].items)
    /\ corpus' = corpus \o tasks[t].items
    /\ tasks' = At(t, "handler", <<>>, <<>>)
    /\ probe' = [op |-> "add_batch", task |-> t]
    /\ UNCHANGED index
    /\ UNCHANGED <<heap, reqVars, runVars>>

\* remove_question: self.question_ids.pop(idx), for an id the list holds
CallRemoveQuestion(t) ==
    /\ CanRun(t)
    /\ tasks[t].pc = "handler"
    /\ \E id \in IndexIds :
          /\ \E i \in 1..Len(question_ids) : question_ids[i] = id
          /\ question_ids' = RemoveFirst(question_ids, id)
          /\ corpus' = RemoveFirstEntry(corpus, id)
    /\ tasks' = At(t, "rebuild", <<>>, <<>>)
    /\ probe' = [op |-> "call", task |-> t]
    /\ UNCHANGED index
    /\ UNCHANGED <<heap, reqVars, runVars>>

\* delete_embeddings_by_resource: self.question_ids = [qid for ... if not ...],
\* when it deletes something
CallDeleteEmbeddingsByResource(t) ==
    /\ CanRun(t)
    /\ tasks[t].pc = "handler"
    /\ \E rid \in {"r1"} :
          /\ \E i \in 1..Len(question_ids) : BelongsTo(question_ids[i], rid)
          /\ question_ids' = SelectSeq(question_ids, LAMBDA id : ~BelongsTo(id, rid))
          /\ corpus' = SelectSeq(corpus, LAMBDA e : ~BelongsTo(e.id, rid))
    /\ tasks' = At(t, "rebuild", <<>>, <<>>)
    /\ probe' = [op |-> "call", task |-> t]
    /\ UNCHANGED index
    /\ UNCHANGED <<heap, reqVars, runVars>>

\* _rebuild_index: self.index = faiss.IndexFlatL2(self.dimension); self._save_index()
Rebuild(t) ==
    /\ CanRun(t)
    /\ tasks[t].pc = "rebuild"
    /\ index' = RebuildIndex(index, question_ids)
    /\ tasks' = At(t, "handler", <<>>, <<>>)
    /\ probe' = [op |-> "rebuild", task |-> t]
    /\ UNCHANGED <<question_ids, corpus>>
    /\ UNCHANGED <<heap, reqVars, runVars>>

\* check_similarity: self.index.ntotal; D, I = self.index.search(...)
CallCheckSimilarity(t) ==
    /\ CanRun(t)
    /\ tasks[t].pc = "handler"
    /\ \E text \in IndexTexts : tasks' = At(t, "read_ids", <<Entry("", text)>>, index)
    /\ probe' = [op |-> "call", task |-> t]
    /\ UNCHANGED <<heap, reqVars, runVars, indexVars>>

\* check_similarity: similarities.append((self.question_ids[idx], similarity)); return
ReadIds(t) ==
    /\ CanRun(t)
    /\ tasks[t].pc = "read_ids"
    /\ probe' = [op |-> "search", task |-> t,
                 vectors |-> tasks[t].seen,
                 ids |-> question_ids,
                 similar |-> check_similarity(tasks[t].seen, question_ids, tasks[t].items[1].text,
                                              ThresholdPercent, TopK)]
    /\ tasks' = At(t, "handler", <<>>, <<>>)
    /\ UNCHANGED <<heap, reqVars, runVars, indexVars>>

LoopNext ==
    \E t \in Tasks :
        \/ CallAddQuestion(t)
        \/ AppendId(t)
        \/ CallAddQuestionsBatch(t)
        \/ ExtendIds(t)
        \/ CallRemoveQuestion(t)
        \/ CallDeleteEmbeddingsByResource(t)
        \/ Rebuild(t)
        \/ CallCheckSimilarity(t)
        \/ ReadIds(t)

SpecLoop == LoopInit /\ [][LoopNext]_vars

\* ----------------------------------- concurrent requests on paper_generator
\* paper_generator is one object; each generate_paper call is a coroutine of the
\* event loop and may be suspended at its awaits (the document store, the
\* generation capability, the graph between two nodes).  An object is known by
\* its identity; heap maps the identity of every dict and list in use to its
\* value, and a request reaches its state only through the identity it holds.
\* the two generate_paper calls in flight
Callers == {1, 2}

ListFields ==
    {"generated_questions", "verified_questions", "errors", "generation_history",
     "rejected_questions"}

\* a generator that keeps the state objects on itself, one set for all calls
AllocOnGenerator(r, kind, n) == <<0, kind, 0>>

\* the identity of an object made by evaluating a dict or list display, or by
\* json.loads, in call r: a new object each time (n counts the call's objects)
Alloc(r, kind, n) == <<r, kind, n>>

\* the heap with the object id set to v
Store(h, id, v) == [x \in DOMAIN h \cup {id} |-> IF x = id THEN v ELSE h[x]]

\* list.append(x) on the object id
AppendTo(h, id, x) == Store(h, id, Append(h[id], x))

\* dict[key] = v on the object id
SetKey(h, id, key, v) == Store(h, id, [h[id] EXCEPT ![key] = v])

\* the state dict of request r
StateOf(r) == heap[tasks[r].state]

\* initial_state = {..., "generated_questions": [], "verified_questions": [],
\* "current_step": "rqg", "retry_count": 0, "errors": [], ...}
InitialDict(r) ==
    [generated_questions |-> Alloc(r, "generated_questions", 0),
     verified_questions |-> Alloc(r, "verified_questions", 0),
     errors |-> Alloc(r, "errors", 0),
     generation_history |-> Alloc(r, "generation_history", 0),
     rejected_questions |-> Alloc(r, "rejected_questions", 0),
     retry_count |-> 0,
     current_step |-> "rqg"]

RequestsInit ==
    /\ total_marks = 5
    /\ prompt = <<>>
    /\ InitialState
    /\ index = <<>>
    /\ question_ids = <<>>
    /\ corpus = <<>>
    /\ probe = NoProbe
    /\ tasks = [r \in Callers |-> [pc |-> "start", state |-> <<>>, allocs |-> 0]]
    /\ heap = <<>>

RequestFrame == UNCHANGED <<reqVars, runVars, indexVars>>

Moved(r, pc, allocs) == [tasks EXCEPT ![r] = [@ EXCEPT !.pc = pc, !.allocs = allocs]]

\* generate_paper up to graph.ainvoke: the state of this call is built
ReqGeneratePaper(r) ==
    /\ tasks[r].pc = "start"
    /\ \E d \in {Alloc(r, "state", 0)}, lists \in {{Alloc(r, f, 0) : f \in ListFields}} :
          /\ heap' = Store([x \in DOMAIN heap \cup lists |-> IF x \in lists THEN <<>> ELSE heap[x]],
                           d, InitialDict(r))
          /\ tasks' = [tasks EXCEPT ![r] = [pc |-> "rqg", state |-> d, allocs |-> 0]]
    /\ probe' = [op |-> "request_step", request |-> r]
    /\ RequestFrame

\* rqg_agent in request r
ReqRqg(r) ==
    /\ tasks[r].pc = "rqg"
    /\ \E ok \in BOOLEAN, d \in {tasks[r].state} :
          \E step \in {IF ok THEN "question_generation" ELSE "error"} :
             /\ heap' = SetKey(IF ok THEN heap
                               ELSE AppendTo(heap, heap[d].errors, "RQG Agent Error"),
                               d, "current_step", step)
             /\ tasks' = Moved(r, route_after_rqg(step), tasks[r].allocs)
    /\ probe' = [op |-> "request_step", request |-> r]
    /\ RequestFrame

\* question_generation_agent in request r: the except branch, or a list of
\* candidates bound to state["generated_questions"] and a history record
ReqGenerate(r) ==
    /\ tasks[r].pc = "generate"
    /\ \E d \in {tasks[r].state},
          failed \in (IF heap[tasks[r].state].retry_count < MaxSetbacks THEN BOOLEAN ELSE {FALSE}) :
          IF failed
          THEN \E retries \in {heap[d].retry_count + 1} :
               \E step \in {IF retries < GenRetryLimit THEN "question_generation" ELSE "error"} :
                  /\ heap' = SetKey(SetKey(AppendTo(heap, heap[d].errors, "Question Generation Error"),
                                           d, "retry_count", retries),
                                    d, "current_step", step)
                  /\ tasks' = Moved(r, route_after_generate(step), tasks[r].allocs)
          ELSE \E questions \in {Alloc(r, "generated_questions", tasks[r].allocs + 1)} :
                  /\ heap' = SetKey(SetKey(AppendTo(Store(heap, questions,
                                                          <<[request |-> r, attempt |-> heap[d].retry_count]>>),
                                                    heap[d].generation_history,
                                                    [phase |-> "generation", attempt |-> heap[d].retry_count]),
                                           d, "generated_questions", questions),
                                    d, "current_step", "verification")
                  /\ tasks' = Moved(r, route_after_generate("verification"), tasks[r].allocs + 1)
    /\ probe' = [op |-> "request_step", request |-> r]
    /\ RequestFrame

\* verifier_agent in request r: a rejection logged or not; then the verified
\* list bound to state["verified_questions"], or the retry, or the forced match
ReqVerify(r) ==
    /\ tasks[r].pc = "verify"
    /\ \E d \in {tasks[r].state}, rejects \in BOOLEAN,
          matches \in (IF heap[tasks[r].state].retry_count < MaxSetbacks THEN BOOLEAN ELSE {TRUE}) :
       \E logged \in {IF rejects
                      THEN AppendTo(heap, heap[d].rejected_questions,
                                    [reason |-> "Duplicate detected", attempt |-> heap[d].retry_count])
                      ELSE heap},
          verified \in {Alloc(r, "verified_questions", tasks[r].allocs + 1)},
          retries \in {heap[d].retry_count + 1} :
          IF matches \/ retries >= VerifyRetryLimit
          THEN /\ heap' = SetKey(SetKey(SetKey(Store(logged, verified, heap[heap[d].generated_questions]),
                                               d, "verified_questions", verified),
                                        d, "retry_count", IF matches THEN heap[d].retry_count ELSE retries),
                                 d, "current_step", "assembly")
               /\ tasks' = Moved(r, route_after_verify("assembly"), tasks[r].allocs + 1)
          ELSE /\ heap' = SetKey(SetKey(AppendTo(logged, heap[d].generation_history,
                                                 VerificationFailedRecord(heap[d].retry_count)),
                                        d, "retry_count", retries),
                                 d, "current_step", "question_generation")
               /\ tasks' = Moved(r, route_after_verify("question_generation"), tasks[r].allocs)
    /\ probe' = [op |-> "request_step", request |-> r]
    /\ RequestFrame

\* assembly_agent in request r
ReqAssemble(r) ==
    /\ tasks[r].pc = "assemble"
    /\ \E d \in {tasks[r].state} :
          /\ heap' = SetKey(AppendTo(heap, heap[d].generation_history,
                                     [phase |-> "completed", total_retries |-> heap[d].retry_count]),
                            d, "current_step", "complete")
          /\ tasks' = Moved(r, route_after_assemble("complete"), tasks[r].allocs)
    /\ probe' = [op |-> "request_step", request |-> r]
    /\ RequestFrame

RequestsNext ==
    \E r \in Callers :
        \/ ReqGeneratePaper(r)
        \/ ReqRqg(r)
        \/ ReqGenerate(r)
        \/ ReqVerify(r)
        \/ ReqAssemble(r)

SpecRequests == RequestsInit /\ [][RequestsNext]_vars

\* ------------------------------------------------------ fair pipeline runs
\* each agent returns and the graph then runs the next node
LiveSpec == Spec /\ WF_vars(Next)

\* ------------------------------------------------------------------- claims
\* C1: whenever the planner returns a MarkPlan for a positive total, the plan
\* has at least one entry and its entries sum to the required total, on the
\* structured-group path and on the fallback path.
C1_PlanSumsToTotal ==
    probe.op = "plan" =>
        /\ SumSeq(marks_distribution) = total_marks
        /\ Len(marks_distribution) >= 1

\* C2: whenever the controller enters the assemble stage, the marks of
\* verified_questions sum to the required total of the request.
C2_AssembleMarksExact ==
    node = "assemble" => TotalMarks(verified_questions) = total_marks

\* C3: whenever the controller enters the assemble stage, verified_questions
\* has as many questions as the MarkPlan of the request has entries.
C3_AssembleCountIsPlanLength ==
    node = "assemble" => Len(verified_questions) = Len(marks_distribution)

\* C4: after _force_exact_match with expected >= 1 and total >= expected, the
\* output has exactly the expected count and its marks sum to the required
\* total; where survivors are fewer than expected, the survivors are kept in
\* order and every extra entry is a clone of the last survivor (a dummy
\* question when there is no survivor), with only text and marks changed.
C4_ForcedMatchExact ==
    probe.op = "forced" =>
        /\ Len(verified_questions) = probe.expected
        /\ TotalMarks(verified_questions) = total_marks
        /\ \A i \in 1..Len(verified_questions) :
              LET n == Len(probe.survivors)
                  q == verified_questions[i]
                  from == IF n = 0 THEN DummyQuestion
                          ELSE IF i <= n THEN probe.survivors[i]
                          ELSE probe.survivors[n]
              IN  /\ q.blooms_level = from.blooms_level
                  /\ q.question_type = from.question_type
                  /\ q.answer_key = from.answer_key
                  /\ i <= Max(n, 1) => q.question_text = from.question_text
                  /\ (i > n /\ n > 0) => Head(q.question_text) = "Additional question: "

\* the scenario: 9 survivors, expected count 10, total 40, forced to 10 entries
C4_Witness ==
    /\ probe.op = "forced"
    /\ Len(probe.survivors) = 9
    /\ probe.expected = 10
    /\ total_marks = 40
    /\ Len(verified_questions) = 10
    /\ verified_questions[10].question_text = CloneText(probe.survivors[9].question_text)

C6_DuplicateRejected ==
    (probe.op = "verify" /\ HasRequiredFields(probe.question)) =>
        IF probe.matched
        THEN /\ probe.verified = <<>>
             /\ probe.rejected = <<[reason |-> "Duplicate detected", attempt |-> 0,
                                    question |-> probe.question.question_text]>>
        ELSE /\ probe.verified = <<probe.question>>
             /\ probe.rejected = <<>>

\* the order of the stages, and the measure that every step of a run decreases
StageRank(n) ==
    CASE n = "rqg" -> 4 [] n = "generate" -> 3 [] n = "verify" -> 2
      [] n = "assemble" -> 1 [] n = "END" -> 0

Measure(n, retries) == 4 * (VerifyRetryLimit - retries) + StageRank(n)

\* C7: every run terminates: each step of the controller decreases a measure
\* that never goes below zero (so generate is re-entered a bounded number of
\* times), and the run eventually ends with current_step complete or error.
C7_Terminates ==
    /\ [][Measure(node', retry_count') < Measure(node, retry_count)]_vars
    /\ [](Measure(node, retry_count) >= 0)
    /\ <>(node = "END" /\ current_step \in {"complete", "error"})

\* a run that ended after using every retry
C7_Witness ==
    /\ node = "END"
    /\ current_step = "complete"
    /\ retry_count = VerifyRetryLimit
    /\ llm_calls = VerifyRetryLimit

\* C8: the two retry budgets are separate: a run gives up after a generation
\* failure only when that is its 3rd generation failure, and Forced-Match runs
\* only at the 5th verification mismatch.
C8_SeparateBudgets ==
    LET generation_failures ==
            Cardinality({i \in 1..Len(errors) : errors[i] = "Question Generation Error"})
        verification_mismatches ==
            Cardinality({i \in 1..Len(generation_history) :
                            generation_history[i].phase = "verification_failed"})
            + (IF forced THEN 1 ELSE 0)
    IN  /\ (current_step = "error" /\ generation_failures > 0 /\ ~forced)
              => generation_failures = GenRetryLimit
        /\ forced => verification_mismatches = VerifyRetryLimit

\* C9: a run that ends in error has the empty initial final_paper, a run that
\* ends in complete has the paper the Assembler built from verified_questions,
\* and no stage runs after either.
C9_ErrorIsTerminal ==
    /\ [](current_step = "error" => (final_paper = EmptyPaper /\ node = "END"))
    /\ [](current_step = "complete" =>
            (final_paper.keys # {} /\ final_paper.questions = verified_questions /\ node = "END"))
    /\ [][current_step \notin {"error", "complete"}]_vars

\* an error raised by the Assembler itself, after the Verifier handed questions over
C9_Witness ==
    /\ current_step = "error"
    /\ node = "END"
    /\ verified_questions # <<>>
    /\ final_paper = EmptyPaper

\* C10: after remove_question or delete_embeddings_by_resource the index holds
\* exactly the vectors of the retained identifiers: a search with a retained
\* entry's own vector finds that identifier at distance 0, and no vector of a
\* removed identifier is left.
C10_RebuildKeepsRetained ==
    probe.op \in {"remove", "delete"} =>
        /\ Len(index) = Len(corpus)
        /\ \A i \in 1..Len(corpus) :
              \E r \in 1..Len(Similarities(index, question_ids, corpus[i].text, Len(index))) :
                  /\ Similarities(index, question_ids, corpus[i].text, Len(index))[r].id = corpus[i].id
                  /\ Similarities(index, question_ids, corpus[i].text, Len(index))[r].dist = 0

\* C13: when every clause of the instruction is a structured clause
\* "N <type> of M marks each" and the clauses already sum to the required total,
\* the plan is, clause after clause in text order, N copies of M.
C13_StructuredPlanInOrder ==
    (/\ probe.op = "plan"
     /\ prompt # <<>>
     /\ \A k \in 1..Len(prompt) : ComplexMatch(prompt[k])
     /\ SumSeq([k \in 1..Len(prompt) |-> prompt[k].n * prompt[k].m]) = total_marks) =>
        /\ Len(marks_distribution) = SumSeq([k \in 1..Len(prompt) |-> prompt[k].n])
        /\ \A k \in 1..Len(prompt) : \A j \in 1..prompt[k].n :
              marks_distribution[SumSeq([i \in 1..(k - 1) |-> prompt[i].n]) + j] = prompt[k].m

\* "10 mcqs of 1 marks each, 5 short questions of 2 marks each" with total 20
C13_Witness ==
    /\ probe.op = "plan"
    /\ total_marks = 20
    /\ Len(prompt) = 2
    /\ prompt[1].n = 10
    /\ prompt[2].n = 5
    /\ marks_distribution = Repeat(1, 10) \o Repeat(2, 5)

\* C14: when the instruction has no structured clause, the plan has n slots (n
\* the loosely extracted count, else the default), the first (total mod n) of
\* floor(total / n) + 1 marks and the others of floor(total / n) marks, so any
\* two slots differ by at most 1.
C14_EvenSplitRemainderFirst ==
    (/\ probe.op = "plan"
     /\ \A k \in 1..Len(prompt) : ~ComplexMatch(prompt[k])) =>
        LET n == Len(marks_distribution)
        IN  /\ n = (IF \E k \in 1..Len(prompt) : LooseCountMatch(prompt[k])
                    THEN prompt[CHOOSE k \in 1..Len(prompt) :
                                    /\ LooseCountMatch(prompt[k])
                                    /\ \A j \in 1..(k - 1) : ~LooseCountMatch(prompt[j])].n
                    ELSE DefaultCount(total_marks, prompt))
            /\ \A i \in 1..n :
                  marks_distribution[i] = (total_marks \div n) + (IF i <= total_marks % n THEN 1 ELSE 0)
            /\ \A i \in 1..n : \A j \in 1..n : marks_distribution[i] - marks_distribution[j] <= 1

\* "8 questions" with total 40, and a split with a remainder
C14_Witness ==
    \/ /\ probe.op = "plan"
       /\ total_marks = 40
       /\ prompt = <<Clause("count", 8, "questions", 0)>>
       /\ marks_distribution = Repeat(5, 8)
    \/ /\ probe.op = "plan"
       /\ total_marks = 5
       /\ prompt = <<Clause("count", 3, "questions", 0)>>
       /\ marks_distribution = <<2, 2, 1>>

\* C15: for any candidate list the output of _strict_validate_and_correct has
\* exactly len(marks_distribution) entries, and entry i has the marks of slot i
\* of the plan.
C15_CorrectorFitsPlan ==
    probe.op = "corrected" =>
        /\ Len(probe.questions) = Len(marks_distribution)
        /\ \A i \in 1..Len(probe.questions) :
              i <= Len(marks_distribution) => probe.questions[i].marks = marks_distribution[i]

\* C16: when the Verifier finds a count or marks mismatch and fewer than 5
\* verification mismatches have happened in the run (this one included), the
\* retry counter grows by one, one history entry is appended and control goes
\* back to generate, without Forced-Match; Forced-Match, followed by assemble,
\* happens only at the 5th verification mismatch of the run.
C16_ForcedOnlyAtFifthMismatch ==
    [][node = "verify" =>
        LET mismatches ==
                Cardinality({i \in 1..Len(generation_history) :
                                generation_history[i].phase = "verification_failed"})
        IN  (node' = "generate" \/ forced' \/ retry_count' # retry_count) =>
                IF mismatches + 1 < VerifyRetryLimit
                THEN /\ retry_count' = retry_count + 1
                     /\ Len(generation_history') = Len(generation_history) + 1
                     /\ SubSeq(generation_history', 1, Len(generation_history)) = generation_history
                     /\ node' = "generate"
                     /\ ~forced'
                ELSE /\ forced'
                     /\ node' = "assemble"]_vars

\* C17: when the answer of the generation capability cannot be decoded as a
\* list of question records (it is not JSON, or it is JSON but not a list), the
\* Generation Agent leaves the retry counter unchanged, sets the candidates to
\* the min(5, floor(total / 10)) fallback questions of 10 marks each and goes on
\* to verify.
C17_MalformedOutputFallsBack ==
    [][(/\ node = "generate"
        /\ probe'.op = "response"
        /\ probe'.response.kind \in {"not_json", "not_list"}) =>
            /\ retry_count' = retry_count
            /\ Len(generated_questions') = Min(5, total_marks \div 10)
            /\ \A i \in 1..Len(generated_questions') : generated_questions'[i].marks = 10
            /\ node' = "verify"]_vars

\* C18: a decoded list of which fewer than 40% of the (corrected) questions
\* mention a subject keyword is not handed to the Verifier while a failure would
\* still be retried (retry counter + 1 below the generation limit): the agent
\* keeps the candidates it had and generate runs again; and a list whose only
\* defect is low relevance never moves the run to the error state.
C18_LowRelevanceRetried ==
    [][(/\ node = "generate"
        /\ probe'.op = "response"
        /\ probe'.response.kind = "list"
        /\ ~StrictValidateRaises(probe'.response.questions, marks_distribution', total_marks, prompt)) =>
            LET corrected == StrictValidateAndCorrect(probe'.response.questions, marks_distribution',
                                                      total_marks, prompt)
                relevant == {i \in 1..Len(corrected) : MentionsSubject(corrected[i].question_text)}
                low == corrected = <<>> \/ Cardinality(relevant) * 100 < 40 * Len(corrected)
            IN  low =>
                    /\ retry_count + 1 < GenRetryLimit =>
                          /\ node' = "generate"
                          /\ current_step' = "question_generation"
                          /\ generated_questions' = generated_questions
                          /\ retry_count' = retry_count + 1
                    /\ (Len(corrected) = Len(marks_distribution') /\ TotalMarks(corrected) = total_marks) =>
                          (current_step' # "error" /\ node' # "END")]_vars

\* an off-topic answer was turned back once and generate is about to run again
C18_Witness ==
    /\ probe.op = "response"
    /\ probe.response.kind = "list"
    /\ probe.response.questions = <<OffTopic>>
    /\ node = "generate"
    /\ retry_count = 1
    /\ errors = <<"Question Generation Error">>
    /\ generated_questions = <<>>

\* C19: the Verifier's loop, candidate by candidate in arrival order: a
\* candidate without one of question_text, blooms_level, question_type, marks,
\* answer_key is left out of the verified list, gets exactly one
\* rejected_questions entry with reason "Missing required fields", and is not
\* looked up in the Similarity Index; rejections (missing fields or duplicate)
\* never move the run to the error state.
C19_MissingFieldsRejected ==
    [][node = "verify" =>
        LET lacking(q) == \E f \in {"question_text", "blooms_level", "question_type",
                                    "marks", "answer_key"} : f \notin q.keys
            new == SubSeq(rejected_questions', Len(rejected_questions) + 1, Len(rejected_questions'))
            incomplete == SelectSeq(generated_questions, lacking)
            complete == SelectSeq(generated_questions, LAMBDA q : ~lacking(q))
        IN  /\ SubSeq(rejected_questions', 1, Len(rejected_questions)) = rejected_questions
            /\ SelectSeq(new, LAMBDA e : e.reason = "Missing required fields")
                 = [i \in 1..Len(incomplete) |->
                        [reason |-> "Missing required fields", attempt |-> retry_count,
                         question |-> incomplete[i].question_text]]
            /\ \A i \in 1..Len(probe'.verified) : ~lacking(probe'.verified[i])
            /\ probe'.queried = [i \in 1..Len(complete) |-> complete[i].question_text]
            /\ Len(new) + Len(probe'.verified) = Len(generated_questions)
            /\ current_step' # "error"
            /\ node' # "END"]_vars

\* the Verifier met a candidate without answer_key followed by a complete one:
\* one entry logged, the other candidate verified, the run goes on
C19_Witness ==
    /\ probe.op = "verifier_loop"
    /\ Len(generated_questions) = 2
    /\ "answer_key" \notin generated_questions[1].keys
    /\ probe.queried = <<generated_questions[2].question_text>>
    /\ Len(probe.verified) = 1
    /\ rejected_questions # <<>>
    /\ rejected_questions[Len(rejected_questions)].reason = "Missing required fields"
    /\ current_step # "error"

\* the first text is the beginning of the second, character by character
IsLeadingPart(a, b) ==
    \/ a = <<>>
    \/ /\ Len(a) <= Len(b)
       /\ \A i \in 1..(Len(a) - 1) : a[i] = b[i]
       /\ a[Len(a)].ch = b[Len(a)].ch
       /\ a[Len(a)].n <= b[Len(a)].n

\* what rqg_agent leaves alone besides resource_context, current_step and errors
RqgFrame ==
    UNCHANGED <<total_marks, prompt, retry_count, marks_distribution, generated_questions,
                verified_questions, final_paper, generation_history, rejected_questions,
                forced, llm_calls, index, question_ids, corpus>>

\* C20, as the code has it: resource_context never has more than 15000
\* characters; it is the first min(len, 15000) characters of the joined
\* context; and rqg_agent changes nothing of the pipeline state but
\* resource_context and current_step, except that when a collaborator fails it
\* appends its one message to errors (and then leaves resource_context alone).
C20_ContextBoundedPrefix ==
    /\ [](Chars(resource_context) <= 15000)
    /\ [](probe.op = "context" =>
            /\ IsLeadingPart(resource_context, probe.full)
            /\ Chars(resource_context) = Min(Chars(probe.full), 15000))
    /\ [][node = "rqg" =>
            /\ RqgFrame
            /\ \/ errors' = errors
               \/ /\ current_step' = "error"
                  /\ Len(errors') = Len(errors) + 1
                  /\ SubSeq(errors', 1, Len(errors)) = errors
                  /\ resource_context' = resource_context]_vars

\* a context of 16002 characters was cut inside its second section
C20_Witness ==
    /\ probe.op = "context"
    /\ Chars(probe.full) = 16002
    /\ Len(resource_context) = 3
    /\ resource_context[3] = Run("paper", 6998)
    /\ current_step = "question_generation"

\* C20 as stated: the same, with nothing changed but resource_context and
\* current_step.
C20_OnlyContextAndStepChange ==
    /\ [](Chars(resource_context) <= 15000)
    /\ [](probe.op = "context" =>
            /\ IsLeadingPart(resource_context, probe.full)
            /\ Chars(resource_context) = Min(Chars(probe.full), 15000))
    /\ [][node = "rqg" => (RqgFrame /\ errors' = errors)]_vars

\* task t has begun a write of the index (add, batch add, remove, delete by
\* resource) and has not finished it
MidWrite(t) == tasks[t].pc \in {"append_id", "extend_ids", "rebuild"}

\* task t has searched the vectors and has not read the identifiers yet
MidSearch(t) == tasks[t].pc = "read_ids"

\* C11: on the one index of the process, no two writes (add, rebuild) of
\* concurrent requests are in progress at once; no search is in progress while
\* a write is in progress; and the vectors a search has searched are still the
\* vectors of the index when it reads the identifier list, so what the search
\* sees is the index of one moment between two operations.
C11_IndexOperationsAtomic ==
    /\ \A t \in DOMAIN tasks : \A o \in DOMAIN tasks \ {t} :
          /\ ~(MidWrite(t) /\ MidWrite(o))
          /\ ~(MidSearch(t) /\ MidWrite(o))
    /\ \A t \in DOMAIN tasks : MidSearch(t) => tasks[t].seen = index
    /\ probe.op = "search" => (probe.vectors = index /\ probe.ids = question_ids)

\* a search finished while the other task was suspended in its handler, after
\* that task's add had completed
C11_Witness ==
    /\ probe.op = "search"
    /\ probe.similar
    /\ Len(probe.vectors) = 2
    /\ Len(probe.ids) = 2
    /\ \A t \in DOMAIN tasks : tasks[t].pc = "handler"

\* the pipeline state request r sees through the objects it holds
PipelineStateOf(r) ==
    [generated_questions |-> heap[StateOf(r).generated_questions],
     verified_questions |-> heap[StateOf(r).verified_questions],
     retry_count |-> StateOf(r).retry_count,
     errors |-> heap[StateOf(r).errors],
     generation_history |-> heap[StateOf(r).generation_history],
     rejected_questions |-> heap[StateOf(r).rejected_questions],
     current_step |-> StateOf(r).current_step]

\* C12: with two generate_paper calls in flight on the one paper_generator,
\* whatever the order in which the event loop resumes them, a step of one
\* request leaves the other request's candidate list, verified list, retry
\* counter, errors, history log and rejected log (and its place in the graph)
\* as they were.
C12_RequestsIndependent ==
    [][\A r \in DOMAIN tasks : \A o \in DOMAIN tasks \ {r} :
          (probe'.op = "request_step" /\ probe'.request = r /\ tasks[o].pc # "start") =>
              /\ tasks'[o] = tasks[o]
              /\ PipelineStateOf(o)' = PipelineStateOf(o)]_vars

\* both requests in flight: the first waits for its verifier with candidates,
\* the second has failed once (or more) and waits to generate again
C12_Witness ==
    /\ probe.op = "request_step"
    /\ tasks[1].pc = "verify"
    /\ tasks[2].pc = "generate"
    /\ PipelineStateOf(1).retry_count = 0
    /\ PipelineStateOf(1).errors = <<>>
    /\ PipelineStateOf(1).generated_questions # <<>>
    /\ PipelineStateOf(2).retry_count = 1
    /\ PipelineStateOf(2).errors = <<"Question Generation Error">>
    /\ PipelineStateOf(2).generated_questions = <<>>

\* the sum of the counts of a tally
RECURSIVE TallyTotal(_, _)
TallyTotal(tally, levels) ==
    IF levels = {} THEN 0
    ELSE LET l == CHOOSE x \in levels : TRUE
         IN  tally[l] + TallyTotal(tally, levels \ {l})

\* the positions of the "completed" entries of the history log
CompletedEntries ==
    {i \in 1..Len(generation_history) : generation_history[i].phase = "completed"}

\* C21: in a run that ended in complete, the counts of blooms_distribution sum
\* to the number of questions of the paper (each question is counted once, at
\* its own level), and the history log has exactly one "completed" entry, its
\* last; a run that ended in error, and a run still under way, has none.
C21_TallyAndCompletedEntry ==
    /\ current_step = "complete" =>
          /\ TallyTotal(final_paper.blooms_distribution, DOMAIN final_paper.blooms_distribution)
                = Len(final_paper.questions)
          /\ \A l \in DOMAIN final_paper.blooms_distribution :
                final_paper.blooms_distribution[l]
                    = Cardinality({i \in 1..Len(final_paper.questions) :
                                      final_paper.questions[i].blooms_level = l})
          /\ CompletedEntries = {Len(generation_history)}
    /\ current_step # "complete" => CompletedEntries = {}

\* a paper of three questions, two of them at the same level
C21_Witness ==
    /\ current_step = "complete"
    /\ Len(final_paper.questions) = 3
    /\ Cardinality(DOMAIN final_paper.blooms_distribution) = 2
    /\ Len(generation_history) >= 2

\* the controller's state: the node about to run, or the way the run ended
ControllerState ==
    CASE node = "rqg" -> "context-gather"
      [] node = "generate" -> "generate"
      [] node = "verify" -> "verify"
      [] node = "assemble" -> "assemble"
      [] node = "END" -> IF current_step = "complete" THEN "complete" ELSE "error"

ControllerStateNext ==
    CASE node' = "rqg" -> "context-gather"
      [] node' = "generate" -> "generate"
      [] node' = "verify" -> "verify"
      [] node' = "assemble" -> "assemble"
      [] node' = "END" -> IF current_step' = "complete" THEN "complete" ELSE "error"

ListedTransitions ==
    {<<"context-gather", "generate">>, <<"context-gather", "error">>,
     <<"generate", "verify">>, <<"generate", "error">>, <<"generate", "generate">>,
     <<"verify", "generate">>, <<"verify", "assemble">>,
     <<"assemble", "complete">>}

\* C22: the controller takes only the listed transitions: context-gather to
\* generate or error; generate to verify, error or generate again; verify to
\* generate or assemble (never to error); assemble to complete only; complete
\* and error have no successor.
C22_OnlyListedTransitions ==
    [][(<<ControllerState, ControllerStateNext>> \in ListedTransitions)]_vars

\* C23: every question of the verified list handed to the Assembler has at
\* least 1 mark, whichever of planner reconciliation, corrector overwrite,
\* last-slot residual, verifier adjustment and forced match produced it.
C23_VerifiedMarksPositive ==
    node = "assemble" =>
        \A i \in 1..Len(verified_questions) : verified_questions[i].marks >= 1

\* the type name an instruction clause declares, "" when it declares none
DeclaredType(c) ==
    IF c.form \notin {"each", "count"} THEN ""
    ELSE CASE c.t = "mcqs" -> "MCQ"
           [] c.t = "short questions" -> "Short Answer"
           [] c.t = "long questions" -> "Long Answer"
           [] OTHER -> ""

\* the typed groups of an instruction, in the order the text declares them
RECURSIVE DeclaredGroups(_)
DeclaredGroups(p) ==
    IF p = <<>> THEN <<>>
    ELSE (IF DeclaredType(Head(p)) # ""
          THEN <<[type |-> DeclaredType(Head(p)), count |-> Head(p).n, marks |-> Head(p).m]>>
          ELSE <<>>)
         \o DeclaredGroups(Tail(p))

\* every group has a run of count consecutive slots of its type, no slot in two runs
GroupsOccupyRuns(groups, qs) ==
    \E start \in [1..Len(groups) -> 1..(Len(qs) + 1)] :
        /\ \A g \in 1..Len(groups) :
              /\ start[g] + groups[g].count - 1 <= Len(qs)
              /\ \A i \in start[g]..(start[g] + groups[g].count - 1) :
                    qs[i].question_type = groups[g].type
        /\ \A g, h \in 1..Len(groups) :
              g # h => (start[g]..(start[g] + groups[g].count - 1))
                         \cap (start[h]..(start[h] + groups[h].count - 1)) = {}

\* C24: when the instruction declares typed groups, in the Corrector's output
\* each declared group of N questions occupies N consecutive slots of its type,
\* and every slot whose type the Corrector changed to MCQ carries option text.
C24_SlotsTypedByDeclaredGroups ==
    (probe.op = "corrected" /\ DeclaredGroups(prompt) # <<>>) =>
        /\ GroupsOccupyRuns(DeclaredGroups(prompt), probe.questions)
        /\ \A i \in 1..Len(probe.questions) :
              (/\ probe.questions[i].question_type = "MCQ"
               /\ Counted(generated_questions, marks_distribution)[i].question_type # "MCQ")
                 => HasNewlineA(probe.questions[i].question_text)

\* C25: in every run the retry counter stays between 0 and 5 and no step
\* lowers it, and the generation capability is invoked at most 5 times.
C25_RetryCounterBounded ==
    /\ [](retry_count >= 0 /\ retry_count <= VerifyRetryLimit /\ llm_calls <= VerifyRetryLimit)
    /\ [][retry_count' >= retry_count]_vars

\* the fifth mismatch of a run whose five generations all called the capability
C25_Witness ==
    /\ node = "assemble"
    /\ forced
    /\ retry_count = VerifyRetryLimit
    /\ llm_calls = VerifyRetryLimit
    /\ errors # <<>>

\* C26: after any sequence of add_question, add_questions_batch,
\* remove_question, delete_embeddings_by_resource and clear_index the index
\* holds as many vectors as identifiers, and the i-th vector is the vector of
\* the question the i-th identifier names.
C26_VectorsAlignedWithIds ==
    /\ Len(index) = Len(question_ids)
    /\ Len(corpus) = Len(question_ids)
    /\ \A i \in 1..Len(question_ids) :
          /\ corpus[i].id = question_ids[i]
          /\ i <= Len(index) => index[i] = create_embedding(corpus[i].text)

RECURSIVE DeclaredTotal(_)
DeclaredTotal(groups) ==
    IF groups = <<>> THEN 0
    ELSE Head(groups).count * Head(groups).marks + DeclaredTotal(Tail(groups))

\* C28: for an instruction that declares several typed groups with per-group
\* marks (adding up to the required total), in any order, every slot of the
\* Corrector's output has the type and the marks of one and the same declared
\* group: no slot has one group's type with another group's marks.
C28_SlotTypeAndMarksOfSameGroup ==
    (/\ probe.op = "corrected"
     /\ Len(prompt) >= 2
     /\ \A c \in 1..Len(prompt) : prompt[c].form = "each" /\ DeclaredType(prompt[c]) # ""
     /\ DeclaredTotal(DeclaredGroups(prompt)) = total_marks) =>
        \A i \in 1..Len(probe.questions) :
            \E g \in 1..Len(prompt) :
                /\ probe.questions[i].question_type = DeclaredGroups(prompt)[g].type
                /\ probe.questions[i].marks = DeclaredGroups(prompt)[g].marks

\* C29: when the Verifier accepts without Forced-Match, every question it
\* hands to the Assembler is a surviving candidate with the marks it arrived
\* with, which are the marks of its slot of the plan; so in a run that
\* completes without Forced-Match each question of the paper carries exactly
\* the marks of its slot.
C29_AcceptKeepsSlotMarks ==
    [][(node = "verify" /\ current_step' = "assembly" /\ ~forced') =>
        \A i \in 1..Len(verified_questions') :
            \E r \in 1..Len(Survivors(index, question_ids, generated_questions)) :
                LET s == Survivors(index, question_ids, generated_questions)[r]
                IN  /\ verified_questions'[i].question_text = s.q.question_text
                    /\ verified_questions'[i].marks = s.q.marks
                    /\ s.src <= Len(marks_distribution)
                    /\ s.q.marks = marks_distribution[s.src]]_vars

\* C30: no step of a pipeline run changes the similarity index (vectors and
\* identifiers), no step changes the request (total_marks, prompt; subject and
\* department are fixed in the model), and after the context-gather step no
\* step changes resource_context.
C30_RunLeavesIndexAndRequestAlone ==
    [][/\ index' = index
       /\ question_ids' = question_ids
       /\ total_marks' = total_marks
       /\ prompt' = prompt
       /\ node # "rqg" => resource_context' = resource_context]_vars

\* a run that searched the index, went back to generate at least once and
\* completed, with the gathered context and the index as they were
C30_Witness ==
    /\ node = "END"
    /\ current_step = "complete"
    /\ retry_count >= 2
    /\ rejected_questions # <<>>
    /\ resource_context = Join(GatheredTexts)
    /\ index = <<create_embedding(<<"t0">>)>>
    /\ question_ids = <<"p1_0">>

====
